---- MODULE Spec2Model ----
(***************************************************************************)
(* A model of the zettel-link scripts: embed.py (the incremental embedding *)
(* cache) and link.py (all-pairs link discovery).                          *)
(*                                                                         *)
(* A note is identified by its path relative to the corpus root; the model *)
(* writes that key as a positive integer, and the order of the integers is *)
(* the order in which collect_notes returns the notes.  A Python dict is a *)
(* sequence of entries with distinct keys (insertion order is kept, as in  *)
(* Python and in the JSON file).                                           *)
(***************************************************************************)
EXTENDS Integers, Sequences, FiniteSets, TLC

\* ---- bounds of the model ------------------------------------------------
NumNotes == 2       \* note files the environment may create, edit or delete
MaxTime == 2        \* modification times are 0..MaxTime
MaxEnv == 2         \* changes the environment makes to the corpus or the configuration
MaxRuns == 2        \* invocations of embed.py
LongNotes == 21     \* size of the corpus of the long-run specification
MaxCache == 3       \* records in a cache given to find_links
SqrtScale == 16     \* grid points per unit of the modelled float grid
MaxStored == 2      \* records in the cache file link.py and search.py start on
MaxTopK == 3        \* largest top_k given to search.py
ScanDepth == 2      \* directories between input_dir and a file
MaxFiles == 2       \* files under input_dir
MaxPieces == 4      \* pieces of markup a text given to clean_text is made of
VecLen == 2         \* length of the vectors given to cosine_similarity
MaxComp == 2        \* largest absolute value of a component of such a vector

\* ---- program constants ---------------------------------------------------
SaveEvery == 20     \* new_count % 20 == 0

EMBED_FUNCTIONS == {"ollama", "openai", "gemini"}

\* Provider names a config.json may hold: two supported ones and one that is
\* not a key of EMBED_FUNCTIONS.
ConfigProviders == {"ollama", "openai", "acme"}

\* Model identifiers a config.json may hold.
ConfigModels == {"mxbai-embed-large", "text-embedding-3-small"}

\* The length of the vectors a model returns (a fact of the remote model; the
\* two models differ in it).
EmbeddingDim(model) == IF model = "mxbai-embed-large" THEN 2 ELSE 3

VARIABLES
    fs,             \* the corpus: existing note key -> [mtime, empty, readable]
    config,         \* config.json: [model, provider]
    disk,           \* the cache file <input>/.embeddings/embeddings.json
    pc,             \* where the invocation of main() stands
    force,          \* args.force
    notes,          \* the scan result of collect_notes
    i,              \* index of the note the loop is at (1-based)
    cache,          \* the in-memory dict of records
    active_keys,
    new_count, skip_count, error_count, removed_count,
    ret,            \* which call of save_cache is running: "loop" (periodic) or "done" (final)
    calls,          \* history: calls of a provider function made by this run
    saves,          \* history: calls of save_cache completed by this run
    disk0,          \* history: the cache file when this run started
    lastSave,       \* history: the file as the last completed save_cache wrote it
    since,          \* history: what happened to the corpus since the last completed run
    since0,         \* history: the value of since when this run started
    envSteps, runs, \* counters that bound the exploration
    links,          \* link.py: the list find_links returned
    threshold,      \* link.py: the arguments find_links was called with
    max_threshold,
    per_note,       \* link.py: the dict build_per_note_links returned (stem -> list)
    query,          \* search.py: query_embedding
    top_k,          \* search.py: top_k
    results,        \* search.py: results[:top_k], as written to the output
    links_json,     \* the output file of link.py
    search_json,    \* the output file of search.py
    tool,           \* how the last invocation of link.py or search.py ended
    qcalls,         \* history: calls of embed_text made by search.py
    tree,           \* collect_notes: the files under input_dir, as paths
    skip_dirs,      \* collect_notes: the excluded directory patterns
    skip_files,     \* collect_notes: the excluded file patterns
    vec_a, vec_b,   \* cosine_similarity: the arguments
    sims,           \* cosine_similarity: the values both copies returned
    text,           \* clean_text: the content given, as a sequence of tokens
    cleaned         \* clean_text: the result of one and of two applications

runVars == <<pc, force, notes, i, cache, active_keys, new_count, skip_count,
             error_count, removed_count, ret, calls, saves, disk0, since0>>
findVars == <<links, threshold, max_threshold>>
rankVars == <<query, top_k, results>>
toolVars == <<links_json, search_json, tool, qcalls>>
scanVars == <<tree, skip_dirs, skip_files>>
cosVars == <<vec_a, vec_b, sims>>
cleanVars == <<text, cleaned>>
linkVars == <<findVars, per_note, rankVars, toolVars, scanVars, cosVars, cleanVars>>
vars == <<fs, config, disk, runVars, lastSave, since, envSteps, runs, linkVars>>

\* ---- dicts ---------------------------------------------------------------
EmptyDict == <<>>

Keys(d) == {d[j].rel : j \in 1..Len(d)}

Has(d, k) == \E j \in 1..Len(d) : d[j].rel = k

\* cache.get(rel) / cache[rel], for a key the dict has
Get(d, k) == d[CHOOSE j \in 1..Len(d) : d[j].rel = k]

\* cache[rel] = r: an existing key keeps its place, a new key goes last
Put(d, k, r) ==
    IF Has(d, k)
    THEN [j \in 1..Len(d) |-> IF d[j].rel = k THEN r ELSE d[j]]
    ELSE Append(d, r)

\* del d[k] for every k outside keep
Restrict(d, keep) == SelectSeq(d, LAMBDA e : e.rel \in keep)

\* ---- the cache file --------------------------------------------------------
NoMeta == [model |-> "", provider |-> "", embedding_size |-> 0, total_notes |-> 0]

AbsentFile == [state |-> "absent", metadata |-> NoMeta, data |-> EmptyDict]

\* A file open(path, "w") has truncated and json.dump has not finished: a
\* strict prefix of a JSON object, which json.load rejects.
PartialFile == [state |-> "partial", metadata |-> NoMeta, data |-> EmptyDict]

\* "Detect embedding size from first entry": the length of the first
\* non-empty embedding in dict order, 0 when there is none.
DetectSize(data) ==
    IF \E j \in 1..Len(data) : Len(data[j].embedding) > 0
    THEN LET first == CHOOSE j \in 1..Len(data) :
                         /\ Len(data[j].embedding) > 0
                         /\ \A h \in 1..(j - 1) : Len(data[h].embedding) = 0
         IN  Len(data[first].embedding)
    ELSE 0

\* The envelope save_cache dumps (generated_at, the wall-clock time of the
\* save, is left out: nothing reads it).
Envelope(data, model, provider) ==
    [state |-> "valid",
     metadata |-> [model |-> model, provider |-> provider,
                   embedding_size |-> DetectSize(data),
                   total_notes |-> Len(data)],
     data |-> data]

\* load_cache of a file that exists and parses, or does not exist
load_cache(file) == IF file.state = "valid" THEN file.data ELSE EmptyDict

\* a slip: the error of json.load is swallowed
LoadRaises_Never(file) == FALSE

\* json.load raises on a file that is not a JSON document
LoadRaises(file) == file.state = "partial"

\* ---- the corpus ------------------------------------------------------------
RECURSIVE Ascending(_)
Ascending(S) ==
    IF S = {} THEN <<>>
    ELSE LET m == CHOOSE x \in S : \A y \in S : x <= y
         IN  <<m>> \o Ascending(S \ {m})

\* collect_notes over a corpus without excluded names: the existing notes, in
\* the order of the walk.
collect_notes(corpus) == Ascending(DOMAIN corpus)

NoteKeys == 1..NumNotes

\* path.stem of the note with key k: keys 2m-1 and 2m stand for files of the
\* same name in two directories (x.md and sub/x.md).
StemOf(k) == (k + 1) \div 2

NewNote(t, e) == [mtime |-> t, empty |-> e, readable |-> TRUE]

\* ---- one note of the loop ---------------------------------------------------
\* the vector a provider returns for a note under a model
Vector(model, k) ==
    [j \in 1..EmbeddingDim(model) |-> IF j = ((k - 1) % EmbeddingDim(model)) + 1 THEN 1 ELSE 0]

\* a slip in the comparison: a record as old as the file counts as stale
IsFresh_Strict(cached, mtime) == cached.mtime > mtime

\* cached_mtime >= mtime
IsFresh(cached, mtime) == cached.mtime >= mtime

\* The record main stores (path, stem and text_preview are functions of the
\* key and the text and are left out).  src is a history field, not stored by
\* the code: the provider and model that produced the vector.
Record(k, mtime, model, provider) ==
    [rel |-> k, stem |-> StemOf(k), mtime |-> mtime, embedding |-> Vector(model, k),
     src |-> [provider |-> provider, model |-> model]]

InLoop == pc = "loop" /\ i <= Len(notes)

Rel == notes[i]

Readable == fs[Rel].readable

IsEmptyText == fs[Rel].empty

\* a slip: any cached record counts as fresh, whatever its mtime
CachedFresh_AnyRecord == Has(cache, Rel) /\ ~force

\* "if cached and not args.force: if cached_mtime >= mtime: skip"
CachedFresh ==
    /\ Has(cache, Rel)
    /\ ~force
    /\ IsFresh(Get(cache, Rel), fs[Rel].mtime)

NeedsEmbed == InLoop /\ Readable /\ ~IsEmptyText /\ ~CachedFresh

UNCHANGED_ENV == UNCHANGED <<fs, config, since, envSteps, runs, linkVars>>

\* what link.py's functions leave alone: everything of embed.py but pc
UNCHANGED_EMBED ==
    UNCHANGED <<fs, config, disk, force, notes, i, cache, active_keys, new_count,
                skip_count, error_count, removed_count, ret, calls, saves, disk0,
                since0, lastSave, since, envSteps, runs>>

\* ---- main() of embed.py -----------------------------------------------------
NoChange == [kind |-> "none", key |-> 0]
Unknown == [kind |-> "unknown", key |-> 0]

Locals0 ==
    /\ force' = FALSE
    /\ notes' = <<>>
    /\ i' = 1
    /\ cache' = EmptyDict
    /\ active_keys' = {}
    /\ new_count' = 0
    /\ skip_count' = 0
    /\ error_count' = 0
    /\ removed_count' = 0
    /\ ret' = "loop"
    /\ calls' = 0
    /\ saves' = 0
    /\ disk0' = AbsentFile
    /\ since0' = Unknown

\* Lines 218-262: scan, then load the cache unless --force.
StartRun(f) ==
    /\ pc = "idle"
    /\ runs < MaxRuns
    /\ runs' = runs + 1
    /\ force' = f
    /\ notes' = collect_notes(fs)
    /\ i' = 1
    /\ active_keys' = {}
    /\ new_count' = 0
    /\ skip_count' = 0
    /\ error_count' = 0
    /\ removed_count' = 0
    /\ ret' = "loop"
    /\ calls' = 0
    /\ saves' = 0
    /\ disk0' = disk
    /\ since0' = since
    /\ IF ~f /\ LoadRaises(disk)
       THEN /\ pc' = "crashed"
            /\ cache' = EmptyDict
       ELSE /\ pc' = "loop"
            /\ cache' = IF f THEN EmptyDict ELSE load_cache(disk)
    /\ UNCHANGED <<fs, config, disk, lastSave, since, envSteps, linkVars>>

Advance ==
    /\ active_keys' = active_keys \cup {Rel}
    /\ i' = i + 1

\* a slip: the read error is reported and not counted
ReadError_Uncounted ==
    /\ InLoop
    /\ ~Readable
    /\ Advance
    /\ UNCHANGED <<pc, force, notes, cache, new_count, skip_count, removed_count,
                   ret, calls, saves, disk0, since0, disk, lastSave, error_count>>
    /\ UNCHANGED_ENV

\* Lines 268-273: read_text raises.
ReadError ==
    /\ InLoop
    /\ ~Readable
    /\ Advance
    /\ error_count' = error_count + 1
    /\ UNCHANGED <<pc, force, notes, cache, new_count, skip_count, removed_count,
                   ret, calls, saves, disk0, since0, disk, lastSave>>
    /\ UNCHANGED_ENV

\* Lines 275-278: the cleaned text is empty.
SkipEmpty ==
    /\ InLoop
    /\ Readable
    /\ IsEmptyText
    /\ Advance
    /\ skip_count' = skip_count + 1
    /\ UNCHANGED <<pc, force, notes, cache, new_count, error_count, removed_count,
                   ret, calls, saves, disk0, since0, disk, lastSave>>
    /\ UNCHANGED_ENV

\* Lines 280-287: the cached record is fresh.
SkipFresh ==
    /\ InLoop
    /\ Readable
    /\ ~IsEmptyText
    /\ CachedFresh
    /\ Advance
    /\ skip_count' = skip_count + 1
    /\ UNCHANGED <<pc, force, notes, cache, new_count, error_count, removed_count,
                   ret, calls, saves, disk0, since0, disk, lastSave>>
    /\ UNCHANGED_ENV

\* Lines 295-316: the provider answers; the record is stored and, on every
\* SaveEvery-th record, save_cache is called.
EmbedOk ==
    /\ NeedsEmbed
    /\ config.provider \in EMBED_FUNCTIONS
    /\ Advance
    /\ cache' = Put(cache, Rel, Record(Rel, fs[Rel].mtime, config.model, config.provider))
    /\ new_count' = new_count + 1
    /\ calls' = calls + 1
    /\ IF new_count' % SaveEvery = 0
       THEN pc' = "save" /\ ret' = "loop"
       ELSE pc' = "loop" /\ ret' = ret
    /\ UNCHANGED <<force, notes, skip_count, error_count, removed_count,
                   saves, disk0, since0, disk, lastSave>>
    /\ UNCHANGED_ENV

\* Lines 141-148 and 297-298: the provider function raises (network failure,
\* HTTP error status, malformed body) or finds no API key; embed_text calls
\* sys.exit(1) and main re-raises the SystemExit.
EmbedFail ==
    /\ NeedsEmbed
    /\ config.provider \in EMBED_FUNCTIONS
    /\ pc' = "aborted"
    /\ calls' = calls + 1
    /\ active_keys' = active_keys \cup {Rel}
    /\ UNCHANGED <<force, notes, i, cache, new_count, skip_count, error_count,
                   removed_count, ret, saves, disk0, since0, disk, lastSave>>
    /\ UNCHANGED_ENV

\* Lines 136-140: the provider name is no key of EMBED_FUNCTIONS.
EmbedUnknownProvider ==
    /\ NeedsEmbed
    /\ config.provider \notin EMBED_FUNCTIONS
    /\ pc' = "aborted"
    /\ active_keys' = active_keys \cup {Rel}
    /\ UNCHANGED <<force, notes, i, cache, new_count, skip_count, error_count,
                   removed_count, ret, calls, saves, disk0, since0, disk, lastSave>>
    /\ UNCHANGED_ENV

\* Lines 318-324: prune the keys the scan did not see, then call save_cache.
Prune ==
    /\ pc = "loop"
    /\ i > Len(notes)
    /\ cache' = Restrict(cache, active_keys)
    /\ removed_count' = removed_count + Cardinality(Keys(cache) \ active_keys)
    /\ pc' = "save"
    /\ ret' = "done"
    /\ UNCHANGED <<force, notes, i, active_keys, new_count, skip_count, error_count,
                   calls, saves, disk0, since0, disk, lastSave>>
    /\ UNCHANGED_ENV

\* save_cache, line 212: open(cache_path, "w") truncates the file.
SaveOpen ==
    /\ pc = "save"
    /\ disk' = PartialFile
    /\ pc' = "write"
    /\ UNCHANGED <<force, notes, i, cache, active_keys, new_count, skip_count,
                   error_count, removed_count, ret, calls, saves, disk0, since0,
                   lastSave>>
    /\ UNCHANGED_ENV

\* save_cache, lines 213-214: json.dump writes the envelope and the file is closed.
SaveWrite ==
    /\ pc = "write"
    /\ disk' = Envelope(cache, config.model, config.provider)
    /\ lastSave' = disk'
    /\ saves' = saves + 1
    /\ pc' = ret
    /\ UNCHANGED <<force, notes, i, cache, active_keys, new_count, skip_count,
                   error_count, removed_count, ret, calls, disk0, since0>>
    /\ UNCHANGED_ENV

\* The process is killed (KeyboardInterrupt, SIGKILL, power loss) at any point of the run.
Interrupt ==
    /\ pc \in {"loop", "save", "write"}
    /\ pc' = "killed"
    /\ UNCHANGED <<force, notes, i, cache, active_keys, new_count, skip_count,
                   error_count, removed_count, ret, calls, saves, disk0, since0,
                   disk, lastSave>>
    /\ UNCHANGED_ENV

\* The process is gone; its memory with it.
Exit ==
    /\ pc \in {"done", "aborted", "killed", "crashed"}
    /\ pc' = "idle"
    /\ since' = IF pc = "done" THEN NoChange ELSE Unknown
    /\ Locals0
    /\ UNCHANGED <<fs, config, disk, lastSave, envSteps, runs, linkVars>>

RunStep ==
    \/ ReadError
    \/ SkipEmpty
    \/ SkipFresh
    \/ EmbedOk
    \/ EmbedFail
    \/ EmbedUnknownProvider
    \/ Prune
    \/ SaveOpen
    \/ SaveWrite
    \/ Interrupt
    \/ Exit

\* ---- the environment: the user edits the corpus and config.json --------------
\* Only between invocations: a run sees one corpus from scan to save.
EnvReady == pc = "idle" /\ envSteps < MaxEnv

\* since, after a change to the note files
AfterChange(kind, k) ==
    IF since.kind = "unknown" THEN Unknown
    ELSE IF since.kind = "none" /\ kind = "deleted" THEN [kind |-> "deleted", key |-> k]
    ELSE [kind |-> "other", key |-> 0]

EnvFrame(kind, k) ==
    /\ envSteps' = envSteps + 1
    /\ since' = AfterChange(kind, k)
    /\ UNCHANGED <<disk, runVars, lastSave, runs, linkVars>>

CreateNote(k, t, e) ==
    /\ EnvReady
    /\ k \notin DOMAIN fs
    /\ fs' = [n \in DOMAIN fs \cup {k} |-> IF n = k THEN NewNote(t, e) ELSE fs[n]]
    /\ EnvFrame("created", k)
    /\ UNCHANGED config

\* touch: a later modification time, the content as it was
TouchNote(k, t) ==
    /\ EnvReady
    /\ k \in DOMAIN fs
    /\ t > fs[k].mtime
    /\ fs' = [fs EXCEPT ![k].mtime = t]
    /\ EnvFrame("touched", k)
    /\ UNCHANGED config

\* an edit after which the cleaned text is empty, or no longer empty
EditNote(k, t) ==
    /\ EnvReady
    /\ k \in DOMAIN fs
    /\ t > fs[k].mtime
    /\ fs' = [fs EXCEPT ![k].mtime = t, ![k].empty = ~fs[k].empty]
    /\ EnvFrame("edited", k)
    /\ UNCHANGED config

\* the modification time is moved back (touch -d, a restored backup)
RevertMtime(k, t) ==
    /\ EnvReady
    /\ k \in DOMAIN fs
    /\ t < fs[k].mtime
    /\ fs' = [fs EXCEPT ![k].mtime = t]
    /\ EnvFrame("reverted", k)
    /\ UNCHANGED config

DeleteNote(k) ==
    /\ EnvReady
    /\ k \in DOMAIN fs
    /\ fs' = [n \in DOMAIN fs \ {k} |-> fs[n]]
    /\ EnvFrame("deleted", k)
    /\ UNCHANGED config

\* the permissions change: read_text raises, or no longer raises
Chmod(k) ==
    /\ EnvReady
    /\ k \in DOMAIN fs
    /\ fs' = [fs EXCEPT ![k].readable = ~fs[k].readable]
    /\ EnvFrame("chmod", k)
    /\ UNCHANGED config

\* config.py rewrites config.json with another model or provider; no note changes
SetConfig(m, p) ==
    /\ EnvReady
    /\ [model |-> m, provider |-> p] # config
    /\ config' = [model |-> m, provider |-> p]
    /\ envSteps' = envSteps + 1
    /\ UNCHANGED <<fs, disk, runVars, lastSave, since, runs, linkVars>>

EnvStep ==
    \/ \E k \in NoteKeys, t \in 0..MaxTime, e \in BOOLEAN : CreateNote(k, t, e)
    \/ \E k \in NoteKeys, t \in 0..MaxTime : TouchNote(k, t)
    \/ \E k \in NoteKeys, t \in 0..MaxTime : EditNote(k, t)
    \/ \E k \in NoteKeys, t \in 0..MaxTime : RevertMtime(k, t)
    \/ \E k \in NoteKeys : DeleteNote(k)
    \/ \E k \in NoteKeys : Chmod(k)
    \/ \E m \in ConfigModels, p \in ConfigProviders : SetConfig(m, p)

\* ---- link.py ------------------------------------------------------------------
\* A Python float that is the quotient of two integers is written as that
\* quotient: [num, den] with den > 0.  Every vector of the model has integer
\* components and an integer norm, so that dot, the norms and their quotient
\* are exact and the comparisons of the code are comparisons of fractions.
Rat(n, d) == [num |-> n, den |-> d]

\* x <= y and x < y
Leq(x, y) == x.num * y.den <= y.num * x.den
Less(x, y) == x.num * y.den < y.num * x.den

\* config.get("default_threshold", 0.65); max_threshold: float = 0.98
DefaultThreshold == Rat(13, 20)
DefaultMaxThreshold == Rat(49, 50)

RECURSIVE SumProd(_, _, _)
\* sum(x * y for x, y in zip(a, b)) over the first n components
SumProd(a, b, n) == IF n = 0 THEN 0 ELSE SumProd(a, b, n - 1) + a[n] * b[n]

IsSquare(n) == \E r \in 0..n : r * r = n

\* math.sqrt returns the float nearest to the root: the root itself when n is
\* a perfect square, and a rounded value otherwise (the root is irrational
\* then). The float grid is modelled by the multiples of 1 / SqrtScale.
Sqrt(n) ==
    IF IsSquare(n)
    THEN Rat(CHOOSE r \in 0..n : r * r = n, 1)
    ELSE Rat(CHOOSE r \in 0..(n * SqrtScale) :
                 /\ (2 * r - 1) * (2 * r - 1) < 4 * n * SqrtScale * SqrtScale
                 /\ 4 * n * SqrtScale * SqrtScale < (2 * r + 1) * (2 * r + 1),
             SqrtScale)

\* link.py's copy
cosine_similarity(a, b) ==
    LET zipLen == IF Len(a) <= Len(b) THEN Len(a) ELSE Len(b)
        dot    == SumProd(a, b, zipLen)
        norm_a == Sqrt(SumProd(a, a, Len(a)))
        norm_b == Sqrt(SumProd(b, b, Len(b)))
    IN  IF norm_a.num = 0 \/ norm_b.num = 0
        THEN Rat(0, 1)
        ELSE Rat(dot * norm_a.den * norm_b.den, norm_a.num * norm_b.num)

\* a slip: the norm of b is left out of the division
search_cosine_similarity_HalfNormalised(a, b) ==
    LET zipLen == IF Len(a) <= Len(b) THEN Len(a) ELSE Len(b)
        dot    == SumProd(a, b, zipLen)
        norm_a == Sqrt(SumProd(a, a, Len(a)))
        norm_b == Sqrt(SumProd(b, b, Len(b)))
    IN  IF norm_a.num = 0 \/ norm_b.num = 0
        THEN Rat(0, 1)
        ELSE Rat(dot * norm_a.den, norm_a.num)

\* search.py's copy
search_cosine_similarity(a, b) ==
    LET zipLen == IF Len(a) <= Len(b) THEN Len(a) ELSE Len(b)
        dot    == SumProd(a, b, zipLen)
        norm_a == Sqrt(SumProd(a, a, Len(a)))
        norm_b == Sqrt(SumProd(b, b, Len(b)))
    IN  IF norm_a.num = 0 \/ norm_b.num = 0
        THEN Rat(0, 1)
        ELSE Rat(dot * norm_a.den * norm_b.den, norm_a.num * norm_b.num)

\* Both copies are applied to the two vectors, in both orders.
Cosine ==
    /\ pc = "cos"
    /\ sims' = [link_ab   |-> cosine_similarity(vec_a, vec_b),
                link_ba   |-> cosine_similarity(vec_b, vec_a),
                search_ab |-> search_cosine_similarity(vec_a, vec_b),
                search_ba |-> search_cosine_similarity(vec_b, vec_a)]
    /\ pc' = "cos_done"
    /\ UNCHANGED <<findVars, per_note, rankVars, toolVars, scanVars, vec_a, vec_b, cleanVars>>
    /\ UNCHANGED_EMBED

\* round(sim, 4), in ten-thousandths: the nearest integer to 10000 * sim
\* (no similarity of the model lies halfway between two of them)
Round4(x) == (2 * 10000 * x.num + x.den) \div (2 * x.den)

RECURSIVE PairsFrom(_, _, _)
\* the pairs the two nested loops visit, in their order:
\* for i in range(n): for j in range(i + 1, n)
PairsFrom(a, b, n) ==
    IF a > n THEN <<>>
    ELSE IF b > n THEN PairsFrom(a + 1, a + 2, n)
    ELSE <<<<a, b>>>> \o PairsFrom(a, b + 1, n)

\* a slip in the upper comparison: sim <= max_threshold
InBand_Closed(sim, t, mx) == Leq(t, sim) /\ Leq(sim, mx)

\* "if threshold <= sim < max_threshold"
InBand(sim, t, mx) == Leq(t, sim) /\ Less(sim, mx)

MakeLink(entry_a, entry_b, sim) ==
    [score  |-> Round4(sim),
     note_a |-> [stem |-> entry_a.stem, rel |-> entry_a.rel],
     note_b |-> [stem |-> entry_b.stem, rel |-> entry_b.rel]]

\* the sort without reverse=True
InsertByScore_Ascending(sorted, x) ==
    LET before == SelectSeq(sorted, LAMBDA y : y.score <= x.score)
        after  == SelectSeq(sorted, LAMBDA y : y.score > x.score)
    IN  before \o <<x>> \o after

\* list.sort(key=score, reverse=True) is stable: x goes behind every element
\* whose score is at least its own.
InsertByScore(sorted, x) ==
    LET before == SelectSeq(sorted, LAMBDA y : y.score >= x.score)
        after  == SelectSeq(sorted, LAMBDA y : y.score < x.score)
    IN  before \o <<x>> \o after

RECURSIVE SortByScoreDesc(_)
SortByScoreDesc(s) ==
    IF s = <<>> THEN <<>>
    ELSE InsertByScore(SortByScoreDesc(SubSeq(s, 1, Len(s) - 1)), s[Len(s)])

find_links(c, t, mx) ==
    LET pairs == PairsFrom(1, 2, Len(c))
        sim(p) == cosine_similarity(c[p[1]].embedding, c[p[2]].embedding)
        kept == SelectSeq(pairs, LAMBDA p : InBand(sim(p), t, mx))
    IN  SortByScoreDesc([l \in 1..Len(kept) |->
                            MakeLink(c[kept[l][1]], c[kept[l][2]], sim(kept[l]))])

\* find_links is applied to the loaded cache.
FindLinks(t, mx) ==
    /\ pc = "link"
    /\ links' = find_links(cache, t, mx)
    /\ threshold' = t
    /\ max_threshold' = mx
    /\ pc' = "linked"
    /\ UNCHANGED <<per_note, rankVars, toolVars, scanVars, cosVars, cleanVars>>
    /\ UNCHANGED_EMBED

\* an item of a per-note list
Neighbor(other, score) == [stem |-> other.stem, rel |-> other.rel, score |-> score]

\* The appends of the loop of build_per_note_links, in their order, each with
\* the key it appends to: per_note[stem_a] gets note_b, per_note[stem_b] gets note_a.
PerNoteAppends(ls) ==
    [n \in 1..(2 * Len(ls)) |->
        LET link == ls[(n + 1) \div 2]
        IN  IF n % 2 = 1
            THEN [key |-> link.note_a.stem, item |-> Neighbor(link.note_b, link.score)]
            ELSE [key |-> link.note_b.stem, item |-> Neighbor(link.note_a, link.score)]]

\* The dict is keyed by stem; it is written as a function (the order of its
\* keys is not observable in the JSON object).
build_per_note_links(ls) ==
    LET appends == PerNoteAppends(ls)
        listOf(s) == LET mine == SelectSeq(appends, LAMBDA a : a.key = s)
                     IN  [n \in 1..Len(mine) |-> mine[n].item]
    IN  [s \in {appends[n].key : n \in 1..Len(appends)} |-> SortByScoreDesc(listOf(s))]

\* build_per_note_links is applied to the list find_links returned.
BuildPerNote ==
    /\ pc = "linked"
    /\ per_note' = build_per_note_links(links)
    /\ pc' = "grouped"
    /\ UNCHANGED <<findVars, rankVars, toolVars, scanVars, cosVars, cleanVars>>
    /\ UNCHANGED_EMBED

\* a slip: the test is `cache is None`
NotCache_NoneOnly(c) == FALSE

\* `if not cache`: the dict is empty
NotCache(c) == Len(c) = 0

\* a slip: the links of the file that is there are kept in front of the new ones
LinkOutput_Merged(prior, t, c, ls, pn) ==
    LET old == IF prior.state = "valid" THEN prior.links ELSE <<>>
    IN  [state |-> "valid", threshold |-> t,
         total_notes |-> Len(c), total_links |-> Len(old \o ls),
         links |-> old \o ls, per_note |-> pn]

\* the content of links.json after open(output_path, "w") and json.dump(output):
\* whatever the file held before (prior) is gone
LinkOutput(prior, t, c, ls, pn) ==
    [state |-> "valid", threshold |-> t,
     total_notes |-> Len(c), total_links |-> Len(ls),
     links |-> ls, per_note |-> pn]

\* link.py's main on the cache file: load_cache, the check for an empty cache,
\* find_links with the default max_threshold, build_per_note_links and the
\* dump of links.json (the field "generated", a timestamp, is left out).
\* Each behaviour follows one invocation of search.py, or invocations of
\* link.py one after the other.
LinkMain(t) ==
    /\ pc = "idle"
    /\ tool \in {"none", "link_ok"}
    /\ IF LoadRaises(disk)
       THEN /\ tool' = "link_crashed"
            /\ UNCHANGED <<findVars, per_note, links_json>>
       ELSE IF NotCache(load_cache(disk))
       THEN /\ tool' = "link_empty"
            /\ UNCHANGED <<findVars, per_note, links_json>>
       ELSE LET c  == load_cache(disk)
                ls == find_links(c, t, DefaultMaxThreshold)
                pn == build_per_note_links(ls)
            IN  /\ threshold' = t
                /\ max_threshold' = DefaultMaxThreshold
                /\ links' = ls
                /\ per_note' = pn
                /\ links_json' = LinkOutput(links_json, t, c, ls, pn)
                /\ tool' = "link_ok"
    /\ UNCHANGED <<pc, rankVars, search_json, qcalls, scanVars, cosVars, cleanVars>>
    /\ UNCHANGED_EMBED

\* ---- collect_notes over a directory tree ---------------------------------------
\* A file is [dirs, name]: the names of the directories from input_dir down to
\* it, and its own name. Directory names 1, 2 stand for "b", "d" and file names
\* 1, 2, 3 for "a.md", "c.txt", "e.md": as strings,
\* "a.md" < "b" < "c.txt" < "d" < "e.md", and no name is a prefix of another.
\* A list of patterns is given by the set of names that fnmatch matches
\* against one of them.
ScanDirNames == {1, 2}
ScanFileNames == {1, 2, 3}

endswith_md(name) == name # 2

\* a slip: no name is ever excluded
matches_any_Never(name, patterns) == FALSE

matches_any(name, patterns) == name \in patterns

FilesIn(files, d) == {f.name : f \in {g \in files : g.dirs = d}}

SubdirsIn(files, d) ==
    {f.dirs[Len(d) + 1] :
        f \in {g \in files : Len(g.dirs) > Len(d) /\ SubSeq(g.dirs, 1, Len(d)) = d}}

\* the order in which the operating system lists the names of a directory
ListingOrders == {"asc", "desc"}

RECURSIVE Descending(_)
Descending(S) ==
    IF S = {} THEN <<>>
    ELSE LET m == CHOOSE x \in S : \A y \in S : x >= y
         IN  <<m>> \o Descending(S \ {m})

Listing(S, o) == IF o = "asc" THEN Ascending(S) ELSE Descending(S)

RECURSIVE SortedNames(_)
\* sorted(names)
SortedNames(names) ==
    IF names = <<>> THEN <<>>
    ELSE LET x    == names[Len(names)]
             rest == SortedNames(SubSeq(names, 1, Len(names) - 1))
         IN  SelectSeq(rest, LAMBDA y : y <= x) \o <<x>> \o SelectSeq(rest, LAMBDA y : y > x)

RECURSIVE Walk(_, _, _, _, _)
RECURSIVE WalkEach(_, _, _, _, _, _)
\* os.walk from directory d, top-down: the files of d, then each directory
\* left in dirs, in the order of dirs
Walk(files, d, sd, sf, o) ==
    LET dirs  == SortedNames(SelectSeq(Listing(SubdirsIn(files, d), o),
                                       LAMBDA x : ~matches_any(x, sd)))
        kept  == SelectSeq(SortedNames(Listing(FilesIn(files, d), o)),
                           LAMBDA f : endswith_md(f) /\ ~matches_any(f, sf))
        found == [j \in 1..Len(kept) |-> [dirs |-> d, name |-> kept[j]]]
    IN  found \o WalkEach(files, d, dirs, sd, sf, o)

WalkEach(files, d, dirs, sd, sf, o) ==
    IF dirs = <<>> THEN <<>>
    ELSE Walk(files, Append(d, Head(dirs)), sd, sf, o)
         \o WalkEach(files, d, Tail(dirs), sd, sf, o)

collect_notes_walk(files, sd, sf, o) == Walk(files, <<>>, sd, sf, o)

\* collect_notes is applied to the tree, the directories listed in order o.
Scan(o) ==
    /\ pc = "scan"
    /\ notes' = collect_notes_walk(tree, skip_dirs, skip_files, o)
    /\ pc' = "scanned"
    /\ UNCHANGED <<fs, config, disk, force, i, cache, active_keys, new_count,
                   skip_count, error_count, removed_count, ret, calls, saves, disk0,
                   since0, lastSave, since, envSteps, runs, linkVars>>

\* ---- clean_text ------------------------------------------------------------------
\* A text is a sequence of tokens, each a piece of the string that the
\* patterns take as a whole: "D" is "---", "N" a newline, "T" three
\* backticks, "U" is "http://", "a" a letter, and the other tokens are the
\* characters "[", "]", "(", ")", "|", "<", ">" themselves.
Tokens == {"D", "N", "a", "T", "[", "]", "(", ")", "|", "<", ">", "U"}

RECURSIVE RunEnd(_, _, _)
\* the first position from p on that holds a token of stop, Len(t) + 1 if none
RunEnd(t, p, stop) ==
    IF p > Len(t) \/ t[p] \in stop THEN p ELSE RunEnd(t, p + 1, stop)

\* FM_PATTERN.sub('', content, count=1), the pattern ^---\n.*?\n---\n? with
\* DOTALL: a match starts at the first character only, and ends at the first
\* "\n---" behind the opening line
FM_PATTERN(t) ==
    IF /\ Len(t) >= 2
       /\ t[1] = "D"
       /\ t[2] = "N"
       /\ \E j \in 3..(Len(t) - 1) : t[j] = "N" /\ t[j + 1] = "D"
    THEN LET j == CHOOSE k \in 3..(Len(t) - 1) :
                      /\ t[k] = "N" /\ t[k + 1] = "D"
                      /\ \A h \in 3..(k - 1) : ~(t[h] = "N" /\ t[h + 1] = "D")
             e == IF j + 2 <= Len(t) /\ t[j + 2] = "N" THEN j + 2 ELSE j + 1
         IN  SubSeq(t, e + 1, Len(t))
    ELSE t

\* The match of a pattern at position p: the position behind the match and
\* the replacement, or NoMatch.
NoMatch == [end |-> 0, repl |-> <<>>]

\* ```.*?``` (DOTALL), replaced by ''
CODE_BLOCK_RE(t, p) ==
    LET q == RunEnd(t, p + 1, {"T"})
    IN  IF t[p] = "T" /\ q <= Len(t) THEN [end |-> q + 1, repl |-> <<>>] ELSE NoMatch

\* \[\[([^\]|]+)(?:\|[^\]]*)?]], replaced by group 1
WIKILINK_RE(t, p) ==
    IF p + 1 <= Len(t) /\ t[p] = "[" /\ t[p + 1] = "["
    THEN LET g   == RunEnd(t, p + 2, {"]", "|"})
             cur == IF g <= Len(t) /\ t[g] = "|" THEN RunEnd(t, g + 1, {"]"}) ELSE g
         IN  IF g > p + 2 /\ cur + 1 <= Len(t) /\ t[cur] = "]" /\ t[cur + 1] = "]"
             THEN [end |-> cur + 2, repl |-> SubSeq(t, p + 2, g - 1)]
             ELSE NoMatch
    ELSE NoMatch

\* \[([^\]]+)\]\([^)]+\), replaced by group 1
MD_LINK_RE(t, p) ==
    IF t[p] = "["
    THEN LET g == RunEnd(t, p + 1, {"]"})
             u == RunEnd(t, g + 2, {")"})
         IN  IF /\ g > p + 1
                /\ g + 1 <= Len(t)
                /\ t[g + 1] = "("
                /\ u > g + 2
                /\ u <= Len(t)
             THEN [end |-> u + 1, repl |-> SubSeq(t, p + 1, g - 1)]
             ELSE NoMatch
    ELSE NoMatch

\* <[^>]+>, replaced by ''
HTML_RE(t, p) ==
    LET e == RunEnd(t, p + 1, {">"})
    IN  IF t[p] = "<" /\ e > p + 1 /\ e <= Len(t)
        THEN [end |-> e + 1, repl |-> <<>>]
        ELSE NoMatch

\* https?://\S+, replaced by ''
URL_RE(t, p) ==
    LET e == RunEnd(t, p + 1, {"N"})
    IN  IF t[p] = "U" /\ e > p + 1 THEN [end |-> e, repl |-> <<>>] ELSE NoMatch

Match(re, t, p) ==
    CASE re = "CODE_BLOCK_RE" -> CODE_BLOCK_RE(t, p)
      [] re = "WIKILINK_RE"   -> WIKILINK_RE(t, p)
      [] re = "MD_LINK_RE"    -> MD_LINK_RE(t, p)
      [] re = "HTML_RE"       -> HTML_RE(t, p)
      [] re = "URL_RE"        -> URL_RE(t, p)

RECURSIVE Sub(_, _, _)
\* re.sub from position p on: the leftmost match is replaced and the scan
\* goes on behind it; a token that starts no match is kept
Sub(re, t, p) ==
    IF p > Len(t) THEN <<>>
    ELSE LET m == Match(re, t, p)
         IN  IF m.end > 0
             THEN m.repl \o Sub(re, t, m.end)
             ELSE <<t[p]>> \o Sub(re, t, p + 1)

\* re.sub(r'\n{3,}', '\n\n', text): of a run of newlines the first two stay
SqueezeNewlines(t) ==
    LET idx == SelectSeq([n \in 1..Len(t) |-> n],
                         LAMBDA n : ~(n >= 3 /\ t[n] = "N" /\ t[n - 1] = "N" /\ t[n - 2] = "N"))
    IN  [k \in 1..Len(idx) |-> t[idx[k]]]

\* text.strip()
Strip(t) ==
    LET solid == {n \in 1..Len(t) : t[n] # "N"}
    IN  IF solid = {} THEN <<>>
        ELSE SubSeq(t, CHOOSE n \in solid : \A h \in solid : n <= h,
                       CHOOSE n \in solid : \A h \in solid : n >= h)

clean_text(content) ==
    LET t1 == FM_PATTERN(content)
        t2 == Sub("CODE_BLOCK_RE", t1, 1)
        t3 == Sub("WIKILINK_RE", t2, 1)
        t4 == Sub("MD_LINK_RE", t3, 1)
        t5 == Sub("HTML_RE", t4, 1)
        t6 == Sub("URL_RE", t5, 1)
    IN  Strip(SqueezeNewlines(t6))

\* clean_text is applied to the text, and again to its result.
Clean ==
    /\ pc = "clean"
    /\ cleaned' = [once  |-> clean_text(text),
                   twice |-> clean_text(clean_text(text))]
    /\ pc' = "cleaned"
    /\ UNCHANGED <<findVars, per_note, rankVars, toolVars, scanVars, cosVars, text>>
    /\ UNCHANGED_EMBED

\* ---- search.py ---------------------------------------------------------------
\* results.sort(key=lambda x: x[0], reverse=True) is stable
InsertBySim(sorted, x) ==
    LET before == SelectSeq(sorted, LAMBDA y : Leq(x.sim, y.sim))
        after  == SelectSeq(sorted, LAMBDA y : Less(y.sim, x.sim))
    IN  before \o <<x>> \o after

RECURSIVE SortBySimDesc(_)
SortBySimDesc(s) ==
    IF s = <<>> THEN <<>>
    ELSE InsertBySim(SortBySimDesc(SubSeq(s, 1, Len(s) - 1)), s[Len(s)])

\* a slip: the slice takes the last k elements
Take_Last(list, k) ==
    SubSeq(list, Len(list) - (IF k <= Len(list) THEN k ELSE Len(list)) + 1, Len(list))

\* list[:k]
Take(list, k) ==
    IF k >= 0
    THEN SubSeq(list, 1, IF k <= Len(list) THEN k ELSE Len(list))
    ELSE SubSeq(list, 1, IF Len(list) + k >= 0 THEN Len(list) + k ELSE 0)

\* the list of (sim, rel, entry) over cache.items(), sorted, cut to top_k and
\* written as the "results" of the output (path and text_preview left out)
Ranked(c, q, k) ==
    LET scored == [j \in 1..Len(c) |->
                      [sim |-> search_cosine_similarity(q, c[j].embedding), entry |-> c[j]]]
        best   == Take(SortBySimDesc(scored), k)
    IN  [n \in 1..Len(best) |->
            [score |-> Round4(best[n].sim), stem |-> best[n].entry.stem,
             rel |-> best[n].entry.rel]]

\* search.py's main on the cache file, for the vector q the Gateway returns
\* for the query when gw = "ok"; gw = "nokey" is the API key missing from the
\* environment (no request is sent), gw = "error" a request that fails.
SearchMain(q, k, gw) ==
    /\ pc = "idle"
    /\ tool = "none"
    /\ gw = "nokey" => config.provider \in {"openai", "gemini"}
    /\ IF LoadRaises(disk)
       THEN /\ tool' = "search_crashed"
            /\ UNCHANGED <<rankVars, search_json, qcalls>>
       ELSE IF NotCache(load_cache(disk))
       THEN /\ tool' = "search_empty"
            /\ UNCHANGED <<rankVars, search_json, qcalls>>
       ELSE IF config.provider \notin EMBED_FUNCTIONS \/ gw = "nokey"
       THEN /\ tool' = "search_fatal"
            /\ UNCHANGED <<rankVars, search_json, qcalls>>
       ELSE IF gw = "error"
       THEN /\ tool' = "search_fatal"
            /\ qcalls' = qcalls + 1
            /\ UNCHANGED <<rankVars, search_json>>
       ELSE /\ qcalls' = qcalls + 1
            /\ query' = q
            /\ top_k' = k
            /\ results' = Ranked(load_cache(disk), q, k)
            /\ search_json' = [state |-> "valid", top_k |-> k, results |-> results']
            /\ tool' = "search_ok"
    /\ UNCHANGED <<pc, findVars, per_note, links_json, scanVars, cosVars, cleanVars>>
    /\ UNCHANGED_EMBED

\* ---- specifications ------------------------------------------------------------
\* DEFAULT_CONFIG of config.py
DefaultConfig == [model |-> "mxbai-embed-large", provider |-> "ollama"]

\* an output file that does not exist
NoOutput == [state |-> "absent"]

\* the locals and counters of embed.py before a run
InitLocals ==
    /\ force = FALSE
    /\ notes = <<>>
    /\ i = 1
    /\ active_keys = {}
    /\ new_count = 0
    /\ skip_count = 0
    /\ error_count = 0
    /\ removed_count = 0
    /\ ret = "loop"
    /\ calls = 0
    /\ saves = 0
    /\ disk0 = AbsentFile
    /\ since0 = Unknown
    /\ lastSave = AbsentFile
    /\ since = Unknown
    /\ envSteps = 0
    /\ runs = 0

\* link.py and search.py have not run
InitTools ==
    /\ links = <<>>
    /\ threshold = DefaultThreshold
    /\ max_threshold = DefaultMaxThreshold
    /\ per_note = <<>>
    /\ query = <<>>
    /\ top_k = 0
    /\ results = <<>>
    /\ links_json = NoOutput
    /\ search_json = NoOutput
    /\ tool = "none"
    /\ qcalls = 0

\* no directory tree is given to collect_notes
InitNoTree ==
    /\ tree = {}
    /\ skip_dirs = {}
    /\ skip_files = {}

\* no vectors are given to cosine_similarity
InitNoVectors ==
    /\ vec_a = <<>>
    /\ vec_b = <<>>
    /\ sims = <<>>

\* no text is given to clean_text
InitNoText ==
    /\ text = <<>>
    /\ cleaned = <<>>

InitRun == InitLocals /\ InitTools /\ InitNoTree /\ InitNoVectors /\ InitNoText

\* A fresh vault: every note exists and has text; no cache file yet.
Init ==
    /\ fs = [k \in NoteKeys |-> NewNote(1, FALSE)]
    /\ config = DefaultConfig
    /\ disk = AbsentFile
    /\ pc = "idle"
    /\ cache = EmptyDict
    /\ InitRun

Next ==
    \/ \E f \in BOOLEAN : StartRun(f)
    \/ RunStep
    \/ EnvStep

Spec == Init /\ [][Next]_vars

\* A vault large enough for the periodic save; the corpus and the
\* configuration stay as they are.
InitLong ==
    /\ fs \in {[k \in 1..LongNotes |-> IF k = 1 THEN first ELSE NewNote(1, FALSE)] :
                 first \in {NewNote(1, FALSE), NewNote(1, TRUE),
                            [NewNote(1, FALSE) EXCEPT !.readable = FALSE]}}
    /\ config \in {DefaultConfig, [DefaultConfig EXCEPT !.provider = "acme"]}
    /\ disk = AbsentFile
    /\ pc = "idle"
    /\ cache = EmptyDict
    /\ InitRun

NextLong ==
    \/ \E f \in BOOLEAN : StartRun(f)
    \/ RunStep

SpecLong == InitLong /\ [][NextLong]_vars

\* ---- the inputs of the link specification -------------------------------------
LinkKeys == 1..MaxCache

\* Pairwise similarities: 49/50 (the first two), 3/5, 4/5, 24/25, 183/250,
\* 223/250, 1 (equal vectors) and 0 (the zero vector).
LinkVectors ==
    {<<1, 0, 0, 0>>, <<49, 9, 3, 3>>, <<3, 4, 0, 0>>, <<4, 3, 0, 0>>, <<0, 0, 0, 0>>}

Thresholds == {Rat(3, 5), DefaultThreshold}
MaxThresholds == {DefaultMaxThreshold, Rat(24, 25)}

LinkEntries ==
    {[rel |-> k, stem |-> StemOf(k), embedding |-> v] : k \in LinkKeys, v \in LinkVectors}

\* the dicts of at most MaxCache records: sequences of entries with distinct keys
LinkCaches ==
    {c \in UNION {[1..n -> LinkEntries] : n \in 0..MaxCache} :
        \A a, b \in 1..Len(c) : a # b => c[a].rel # c[b].rel}

InitLink ==
    /\ cache \in LinkCaches
    /\ pc = "link"
    /\ fs = <<>>
    /\ config = DefaultConfig
    /\ disk = AbsentFile
    /\ InitRun

NextLink ==
    \/ \E t \in Thresholds, mx \in MaxThresholds : FindLinks(t, mx)
    \/ BuildPerNote

SpecLink == InitLink /\ [][NextLink]_vars

\* ---- link.py, search.py and embed.py started on a given cache file ------
\* a file that parses as a JSON object and has no "data" member
NoDataFile == [state |-> "nodata", metadata |-> NoMeta, data |-> EmptyDict]

StoredCaches ==
    {c \in UNION {[1..n -> LinkEntries] : n \in 0..MaxStored} :
        /\ \A a \in 1..Len(c) : c[a].rel <= MaxStored
        /\ \A a, b \in 1..Len(c) : a # b => c[a].rel # c[b].rel}

StoredFiles ==
    {AbsentFile, PartialFile, NoDataFile}
    \cup {Envelope(c, DefaultConfig.model, DefaultConfig.provider) : c \in StoredCaches}

GatewayOutcomes == {"ok", "nokey", "error"}

InitTool ==
    /\ pc = "idle"
    /\ cache = EmptyDict
    /\ fs = [k \in 1..MaxStored |-> NewNote(1, FALSE)]
    /\ config \in {[DefaultConfig EXCEPT !.provider = p] : p \in ConfigProviders}
    /\ disk \in StoredFiles
    /\ InitRun

\* embed.py is followed up to the end of load_cache
NextTool ==
    \/ \E t \in Thresholds : LinkMain(t)
    \/ \E q \in LinkVectors, k \in 0..MaxTopK, gw \in GatewayOutcomes : SearchMain(q, k, gw)
    \/ \E f \in BOOLEAN : StartRun(f)
    \/ Exit

SpecTool == InitTool /\ [][NextTool]_vars

\* ---- inputs of collect_notes -----------------------------------------------
ScanDirs == UNION {[1..n -> ScanDirNames] : n \in 0..ScanDepth}

ScanFiles == {[dirs |-> d, name |-> n] : d \in ScanDirs, n \in ScanFileNames}

\* the sets of at most MaxFiles files
ScanTrees == {{}} \cup {{s[n] : n \in 1..MaxFiles} : s \in [1..MaxFiles -> ScanFiles]}

InitScan ==
    /\ pc = "scan"
    /\ cache = EmptyDict
    /\ fs = <<>>
    /\ config = DefaultConfig
    /\ disk = AbsentFile
    /\ InitLocals /\ InitTools /\ InitNoVectors /\ InitNoText
    /\ tree \in ScanTrees
    /\ skip_dirs \in SUBSET ScanDirNames
    /\ skip_files \in SUBSET {n \in ScanFileNames : endswith_md(n)}

NextScan == \E o \in ListingOrders : Scan(o)

SpecScan == InitScan /\ [][NextScan]_vars

\* ---- inputs of cosine_similarity -------------------------------------------
CosVectors == [1..VecLen -> (0 - MaxComp)..MaxComp]

InitCos ==
    /\ pc = "cos"
    /\ cache = EmptyDict
    /\ fs = <<>>
    /\ config = DefaultConfig
    /\ disk = AbsentFile
    /\ InitLocals /\ InitTools /\ InitNoTree /\ InitNoText
    /\ vec_a \in CosVectors
    /\ vec_b \in CosVectors
    /\ sims = <<>>

NextCos == Cosine

SpecCos == InitCos /\ [][NextCos]_vars

\* ---- the claims -------------------------------------------------------------------
SavedNow == disk = Envelope(cache, config.model, config.provider)

\* C1: when the Gateway call for one note fails, the run does not abort: the
\* failure is counted as an error of that note, every remaining note of the
\* scan is still processed and the run ends with the final save of the cache.
\* (A run has had a failed call when it made more calls than it stored records.)
C1_GatewayFailureDoesNotAbort ==
    (pc \in {"done", "aborted"} /\ calls > new_count) =>
        /\ i > Len(notes)
        /\ error_count >= calls - new_count
        /\ saves >= 1
        /\ SavedNow

\* C2: a run interrupted at any step leaves on disk the complete, parseable
\* envelope that the last completed save wrote.
C2_InterruptKeepsLastSave ==
    (pc = "killed" /\ lastSave.state = "valid") => disk = lastSave

\* C3 as stated: a run without --force that follows a completed run with no
\* note file changed in between makes no Gateway call, reports no new/updated
\* record, leaves the record mapping as it was and reports every note as
\* from cache.
C3_SecondRunAllFromCache ==
    (pc = "done" /\ since0.kind = "none" /\ ~force) =>
        /\ calls = 0
        /\ new_count = 0
        /\ disk.data = disk0.data
        /\ skip_count = Len(notes)

Unreadable == {j \in 1..Len(notes) : ~fs[notes[j]].readable}

\* C3 as amended: ... and reports every note as from cache, except the notes
\* whose file cannot be read, which are counted as errors again.
C3_SecondRunIdempotent ==
    (pc = "done" /\ since0.kind = "none" /\ ~force) =>
        /\ calls = 0
        /\ new_count = 0
        /\ removed_count = 0
        /\ disk.data = disk0.data
        /\ error_count = Cardinality(Unreadable)
        /\ skip_count = Len(notes) - error_count

\* a second run that skipped a cached note
C3_Witness ==
    /\ pc = "done"
    /\ since0.kind = "none"
    /\ ~force
    /\ Len(disk0.data) > 0
    /\ skip_count > 0

\* C4: without --force, a readable note with non-empty text is (re-)embedded
\* if and only if it has no cached record or the record's mtime is strictly
\* less than the note's; otherwise it is skipped and its record is left as it is.
C4_ReembedIffStale ==
    [][(InLoop /\ ~force /\ Readable /\ ~IsEmptyText /\ pc' # "killed") =>
          IF ~Has(cache, Rel) \/ Get(cache, Rel).mtime < fs[Rel].mtime
          THEN /\ skip_count' = skip_count
               /\ \/ pc' = "aborted"
                  \/ /\ new_count' = new_count + 1
                     /\ calls' = calls + 1
                     /\ Has(cache', Rel)
                     /\ Get(cache', Rel).mtime = fs[Rel].mtime
          ELSE /\ skip_count' = skip_count + 1
               /\ cache' = cache
               /\ calls' = calls
               /\ new_count' = new_count
               /\ pc' = "loop"]_vars

\* the first note was skipped although its file is older than its record
C4_Witness ==
    /\ pc = "loop"
    /\ ~force
    /\ i = 2
    /\ skip_count = 1
    /\ fs[notes[1]].readable
    /\ ~fs[notes[1]].empty
    /\ Has(cache, notes[1])
    /\ Get(cache, notes[1]).mtime > fs[notes[1]].mtime

Scanned == {notes[j] : j \in 1..Len(notes)}

\* C5: after a completed run the persisted cache has no key outside the scan;
\* and a run that follows a completed run after exactly one cached note was
\* deleted removes exactly that record, reports one removal and lowers
\* total_notes by one, every other record unchanged.
C5_PruneExactlyTheDeleted ==
    pc = "done" =>
        /\ Keys(disk.data) \subseteq Scanned
        /\ (since0.kind = "deleted" /\ Has(disk0.data, since0.key)) =>
              /\ disk.data = Restrict(disk0.data, Keys(disk0.data) \ {since0.key})
              /\ removed_count = 1
              /\ disk.metadata.total_notes = disk0.metadata.total_notes - 1

KeptAsBefore(k) ==
    Has(disk0.data, k) => (Has(disk.data, k) /\ Get(disk.data, k) = Get(disk0.data, k))

\* C6: a note whose processing fails (unreadable file, failed Gateway call)
\* keeps the record the persisted cache had for it before the run, with or
\* without --force, and is counted as an error.
C6_FailedNoteKeepsRecord ==
    /\ pc = "done" =>
          /\ \A j \in Unreadable : KeptAsBefore(notes[j])
          /\ error_count >= Cardinality(Unreadable)
    /\ (pc = "aborted" /\ calls > new_count) =>
          /\ KeptAsBefore(notes[i])
          /\ error_count >= 1

\* C7: the cache is persisted right after every 20th new/updated record of
\* the run, never on a skipped or failed note, and once more at the end of
\* every run that starts processing notes, however the run ends.
C7_SaveCadence ==
    /\ pc = "loop" =>
          /\ saves = new_count \div SaveEvery
          /\ (new_count > 0 /\ new_count % SaveEvery = 0) => SavedNow
    /\ pc \in {"done", "aborted"} =>
          /\ saves = (new_count \div SaveEvery) + 1
          /\ SavedNow

\* C8: in every persisted envelope metadata.embedding_size is the length of
\* the embedding of every record.
C8_EmbeddingSizeMatches ==
    disk.state = "valid" =>
        \A j \in 1..Len(disk.data) :
            Len(disk.data[j].embedding) = disk.metadata.embedding_size

\* C9: every record of the persisted envelope was produced by the model and
\* the provider the envelope's metadata names.
C9_RecordsFromNamedModel ==
    disk.state = "valid" =>
        \A j \in 1..Len(disk.data) :
            /\ disk.data[j].src.model = disk.metadata.model
            /\ disk.data[j].src.provider = disk.metadata.provider

Joins(link, x, y) == {link.note_a.rel, link.note_b.rel} = {x, y}

\* C10: find_links returns exactly one link for each unordered pair of
\* distinct cached notes whose similarity s has threshold <= s < max_threshold,
\* and nothing else: no pair twice, none with itself.
C10_LinksExactlyTheBand ==
    pc = "linked" =>
        /\ \A l \in 1..Len(links) :
              /\ links[l].note_a.rel # links[l].note_b.rel
              /\ {links[l].note_a.rel, links[l].note_b.rel} \subseteq Keys(cache)
        /\ \A a, b \in 1..Len(cache) :
              a < b =>
                 LET s == cosine_similarity(cache[a].embedding, cache[b].embedding)
                     n == Cardinality({l \in 1..Len(links) :
                                          Joins(links[l], cache[a].rel, cache[b].rel)})
                 IN  IF /\ threshold.num * s.den <= s.num * threshold.den
                        /\ s.num * max_threshold.den < max_threshold.num * s.den
                     THEN n = 1
                     ELSE n = 0

\* three notes under the defaults' upper bound: one pair exactly at the
\* threshold (kept), one exactly at max_threshold (dropped), one in between (kept)
C10_Witness ==
    /\ pc = "linked"
    /\ Len(cache) = 3
    /\ max_threshold = DefaultMaxThreshold
    /\ Len(links) = 2
    /\ \E l \in 1..Len(links) : links[l].score * threshold.den = 10000 * threshold.num
    /\ \E l \in 1..Len(links) : links[l].score * threshold.den > 10000 * threshold.num
    /\ \E a, b \in 1..Len(cache) :
          cosine_similarity(cache[a].embedding, cache[b].embedding) = max_threshold

NonIncreasing(list) == \A n \in 1..(Len(list) - 1) : list[n].score >= list[n + 1].score

\* C11: the list find_links returns is sorted by non-increasing score, and so
\* is every neighbor list of the per-note view.
C11_SortedByScore ==
    /\ pc \in {"linked", "grouped"} => NonIncreasing(links)
    /\ pc = "grouped" => \A s \in DOMAIN per_note : NonIncreasing(per_note[s])

\* the link list and a neighbor list each hold two different scores
C11_Witness ==
    /\ pc = "grouped"
    /\ Len(links) >= 2
    /\ links[1].score > links[Len(links)].score
    /\ \E s \in DOMAIN per_note :
          /\ Len(per_note[s]) >= 2
          /\ per_note[s][1].score > per_note[s][Len(per_note[s])].score

\* the neighbors of the note with key k: the other endpoint of each of its links
NeighborsOf(k) ==
    {[rel |-> links[l].note_b.rel, score |-> links[l].score] :
        l \in {m \in 1..Len(links) : links[m].note_a.rel = k}}
    \cup
    {[rel |-> links[l].note_a.rel, score |-> links[l].score] :
        l \in {m \in 1..Len(links) : links[m].note_b.rel = k}}

\* C12: in the per-note view every note that is in a link maps to exactly the
\* list of its own neighbors, and a note in no link has no entry, also when
\* distinct notes share a stem.
C12_PerNoteOwnNeighbors ==
    pc = "grouped" =>
        \A c \in 1..Len(cache) :
            LET k == cache[c].rel
                s == cache[c].stem
            IN  IF NeighborsOf(k) = {}
                THEN s \notin DOMAIN per_note
                ELSE /\ s \in DOMAIN per_note
                     /\ Len(per_note[s]) = Cardinality(NeighborsOf(k))
                     /\ {[rel |-> per_note[s][n].rel, score |-> per_note[s][n].score] :
                            n \in 1..Len(per_note[s])} = NeighborsOf(k)

Eq(x, y) == x.num * y.den = y.num * x.den

\* |x - 1| <= 2 / SqrtScale, for x with a positive denominator
NearOne(x) ==
    LET diff == IF x.num >= x.den THEN x.num - x.den ELSE x.den - x.num
    IN  diff * SqrtScale <= 2 * x.den

IsZeroVector(v) == \A n \in 1..Len(v) : v[n] = 0

\* C14 as stated: both copies of cosine_similarity are symmetric, return 1 for
\* two equal nonzero vectors and 0 when an argument is the zero vector.
C14_CosineLaws ==
    pc = "cos_done" =>
        \A ab \in {sims.link_ab, sims.search_ab} :
            /\ \A ba \in {sims.link_ba, sims.search_ba} : Eq(ab, ba)
            /\ (vec_a = vec_b /\ ~IsZeroVector(vec_a)) => Eq(ab, Rat(1, 1))
            /\ (IsZeroVector(vec_a) \/ IsZeroVector(vec_b)) => Eq(ab, Rat(0, 1))

\* C14, amended: both copies are symmetric and return 0 when an argument is
\* the zero vector; for two equal nonzero vectors they return 1 up to the
\* rounding of the square root, and exactly 1 when the norm is exact.
C14_CosineLawsRounded ==
    pc = "cos_done" =>
        \A ab \in {sims.link_ab, sims.search_ab} :
            /\ \A ba \in {sims.link_ba, sims.search_ba} : Eq(ab, ba)
            /\ (vec_a = vec_b /\ ~IsZeroVector(vec_a)) =>
                  /\ NearOne(ab)
                  /\ IsSquare(SumProd(vec_a, vec_a, Len(vec_a))) => Eq(ab, Rat(1, 1))
            /\ (IsZeroVector(vec_a) \/ IsZeroVector(vec_b)) => Eq(ab, Rat(0, 1))

\* the similarity of a vector of irrational norm with itself has been computed
C14_Witness ==
    /\ pc = "cos_done"
    /\ vec_a = vec_b
    /\ ~IsSquare(SumProd(vec_a, vec_a, Len(vec_a)))
    /\ ~Eq(sims.link_ab, Rat(1, 1))
    /\ NearOne(sims.search_ab)

\* the similarity search.py computes for the record with key k
SimOf(k) == search_cosine_similarity(query, Get(load_cache(disk), k).embedding)

Returned == {results[n].rel : n \in 1..Len(results)}

\* C13: on a non-empty cache of N records search returns min(top_k, N)
\* results; they are records of the cache, none is less similar to the query
\* than a record left out, and they are ordered by non-increasing score.
C13_SearchTopK ==
    tool = "search_ok" =>
        LET N == Len(load_cache(disk))
        IN  /\ N > 0
            /\ Len(results) = IF top_k <= N THEN top_k ELSE N
            /\ Cardinality(Returned) = Len(results)
            /\ Returned \subseteq Keys(load_cache(disk))
            /\ \A n \in 1..Len(results) : results[n].score = Round4(SimOf(results[n].rel))
            /\ \A r \in Returned, o \in Keys(load_cache(disk)) \ Returned : Leq(SimOf(o), SimOf(r))
            /\ NonIncreasing(results)
            /\ search_json.state = "valid" /\ search_json.results = results

\* a record is left out for top_k, and the one returned scores below the
\* threshold of link.py
C13_Witness ==
    /\ tool = "search_ok"
    /\ top_k >= 1
    /\ Len(results) = top_k
    /\ \E o \in Keys(load_cache(disk)) \ Returned : Less(SimOf(o), SimOf(results[1].rel))
    /\ results[Len(results)].score < Round4(DefaultThreshold)

HoldsNoRecords(file) ==
    \/ file.state \in {"absent", "nodata"}
    \/ file.state = "valid" /\ Len(file.data) = 0

\* C16: with the cache file absent or holding no records, link.py and
\* search.py end in the fatal "no embeddings" exit, write no output file, and
\* search.py calls the Gateway not once.
C16_EmptyCacheFatal ==
    HoldsNoRecords(disk) =>
        /\ tool \in {"none", "link_empty", "search_empty"}
        /\ links_json = NoOutput
        /\ search_json = NoOutput
        /\ qcalls = 0

\* search.py has ended on a cache file that exists and holds no records, with
\* a provider it could have called
C16_Witness ==
    /\ tool = "search_empty"
    /\ disk.state = "valid"
    /\ config.provider \in EMBED_FUNCTIONS

LoadFailed == pc = "crashed" \/ tool \in {"link_crashed", "search_crashed"}

\* the step is one in which load_cache raises
LoadFails ==
    \/ pc # "crashed" /\ pc' = "crashed"
    \/ tool = "none" /\ tool' \in {"link_crashed", "search_crashed"}

NothingWritten == disk' = disk /\ links_json' = links_json /\ search_json' = search_json

\* C17 as stated: load_cache gives the empty mapping when the file is absent
\* and fails when the file exists and is not a valid envelope; an operation
\* in which it fails leaves the cache file and the output files as they were.
C17_LoadCache ==
    /\ [](disk.state = "absent" =>
            /\ ~LoadFailed
            /\ (pc = "loop" => cache = EmptyDict))
    /\ [](disk.state \notin {"absent", "valid"} =>
            /\ tool \in {"none", "link_crashed", "search_crashed"}
            /\ (pc \in {"idle", "crashed"} \/ force))
    /\ [][LoadFails => NothingWritten]_vars

\* C17, amended: load_cache gives the empty mapping when the file is absent,
\* and also when it parses and has no "data" member; it fails when the file
\* does not parse, and an operation in which it fails leaves the cache file
\* and the output files as they were.
C17_LoadCacheParse ==
    /\ [](disk.state \in {"absent", "nodata"} =>
            /\ ~LoadFailed
            /\ tool \in {"none", "link_empty", "search_empty"}
            /\ (pc = "loop" => cache = EmptyDict))
    /\ [](disk.state = "partial" =>
            /\ tool \in {"none", "link_crashed", "search_crashed"}
            /\ (pc \in {"idle", "crashed"} \/ force))
    /\ [][LoadFails => NothingWritten]_vars

\* load_cache has failed in link.py and in an embed run, on the same file
C17_Witness ==
    /\ disk.state = "partial"
    /\ tool = "link_crashed"
    /\ pc = "crashed"

\* C15: an embed run under a configuration that names an unknown provider
\* aborts before any work: no note is processed, no record is added or
\* pruned, and the cache file is not written.
C15_UnknownProviderNoWork ==
    (pc # "idle" /\ config.provider \notin EMBED_FUNCTIONS) =>
        /\ i = 1
        /\ new_count = 0 /\ skip_count = 0 /\ error_count = 0 /\ removed_count = 0
        /\ pc \notin {"save", "write", "done"}
        /\ saves = 0
        /\ disk = disk0

\* the notes of the vault that can be read and have text
Eligible == {k \in DOMAIN fs : fs[k].readable /\ ~fs[k].empty}

\* C18: an embed run started with the cache file absent or unparseable takes
\* the cache as empty, embeds every eligible note anew and ends with a valid
\* envelope on disk.
C18_CorruptCacheRecoverable ==
    (pc # "idle" /\ disk0.state \in {"absent", "partial"}) =>
        /\ pc # "crashed"
        /\ (pc = "loop" /\ i = 1) => cache = EmptyDict
        /\ pc = "done" =>
              /\ new_count = Cardinality(Eligible)
              /\ Keys(cache) = Eligible
              /\ disk = Envelope(cache, config.model, config.provider)

\* the files collect_notes is to return
Expected ==
    {f \in tree : /\ endswith_md(f.name)
                  /\ f.name \notin skip_files
                  /\ \A n \in 1..Len(f.dirs) : f.dirs[n] \notin skip_dirs}

\* C19: collect_notes returns no file whose name matches an excluded file
\* pattern and no file below a directory, at any depth, whose name matches an
\* excluded directory pattern; every other .md file is returned exactly once.
C19_ScanExclusions ==
    pc = "scanned" =>
        /\ {notes[n] : n \in 1..Len(notes)} = Expected
        /\ Len(notes) = Cardinality(Expected)

\* a file is left out for an excluded directory two levels down, whose parent
\* is not excluded, and another file is returned
C19_Witness ==
    /\ pc = "scanned"
    /\ Len(notes) >= 1
    /\ \E f \in tree : /\ Len(f.dirs) = 2
                       /\ f.dirs[1] \notin skip_dirs
                       /\ f.dirs[2] \in skip_dirs
                       /\ endswith_md(f.name)
                       /\ f.name \notin skip_files

\* the path of a file, each component by its place in the order of the strings
PathKey(f) ==
    [n \in 1..(Len(f.dirs) + 1) |->
        IF n <= Len(f.dirs) THEN 2 * f.dirs[n] ELSE 2 * f.name - 1]

\* p comes before q in lexicographic order
LexLess(p, q) ==
    \/ \E j \in 1..Len(p) :
          /\ j <= Len(q)
          /\ \A h \in 1..(j - 1) : p[h] = q[h]
          /\ p[j] < q[j]
    \/ Len(p) < Len(q) /\ \A h \in 1..Len(p) : p[h] = q[h]

\* C20: collect_notes returns the files in lexicographic order of their
\* paths, whatever the order in which the directories are listed, also for a
\* directory that holds both notes and subdirectories.
C20_ScanLexicographic ==
    pc = "scanned" =>
        /\ \A n \in 1..(Len(notes) - 1) : LexLess(PathKey(notes[n]), PathKey(notes[n + 1]))
        /\ \A o \in ListingOrders : collect_notes_walk(tree, skip_dirs, skip_files, o) = notes

\* ---- inputs of clean_text -----------------------------------------------------
\* A text is made of pieces: a front-matter block, a newline, a letter, the
\* brackets of a wikilink, a link label, a link target, a tag, a code fence,
\* the start of a URL, a bar.
Pieces ==
    {<<"D", "N", "N", "D", "N">>, <<"N">>, <<"a">>, <<"[", "[">>, <<"]", "]">>,
     <<"[", "a", "]">>, <<"(", "a", ")">>, <<"<", "a", ">">>, <<"T">>, <<"U">>, <<"|">>}

RECURSIVE Concat(_)
Concat(ps) == IF ps = <<>> THEN <<>> ELSE Head(ps) \o Concat(Tail(ps))

Texts == {Concat(ps) : ps \in UNION {[1..n -> Pieces] : n \in 0..MaxPieces}}

InitClean ==
    /\ pc = "clean"
    /\ cache = EmptyDict
    /\ fs = <<>>
    /\ config = DefaultConfig
    /\ disk = AbsentFile
    /\ InitLocals /\ InitTools /\ InitNoTree /\ InitNoVectors
    /\ text \in Texts
    /\ cleaned = <<>>

NextClean == Clean

SpecClean == InitClean /\ [][NextClean]_vars

\* C21: clean_text is idempotent: applied to its own result it returns that
\* result, also for a text with two front-matter blocks, with whitespace
\* before a front-matter block, or with link markup inside other markup.
C21_CleanIdempotent == pc = "cleaned" => cleaned.twice = cleaned.once

\* C22: a note whose cleaned text is empty causes no Gateway call and no
\* change to the records, and is counted apart from the three counts the
\* summary calls "From cache" (skip_count), "New/updated" and "Errors".
C22_EmptyCountedApart ==
    [][(InLoop /\ Readable /\ IsEmptyText /\ pc' # "killed") =>
          /\ calls' = calls
          /\ cache' = cache
          /\ i' = i + 1
          /\ new_count' = new_count
          /\ error_count' = error_count
          /\ skip_count' = skip_count]_vars

\* C23: after a completed run every record of the persisted cache is fresh:
\* its note exists and the stored mtime is at least the mtime of the note.
C23_PersistedRecordsFresh ==
    pc = "done" =>
        \A j \in 1..Len(disk.data) :
            /\ disk.data[j].rel \in DOMAIN fs
            /\ IsFresh(disk.data[j], fs[disk.data[j].rel].mtime)

\* C24: in a completed run every scanned note is counted once, as new or
\* updated, as skipped or as an error, and the Gateway was called once for
\* each note counted as new or updated.
C24_CountsAddUp ==
    pc = "done" =>
        /\ new_count + skip_count + error_count = Len(notes)
        /\ calls = new_count

\* a completed run that embedded one note and could not read the other
C24_Witness ==
    /\ pc = "done"
    /\ new_count = 1
    /\ error_count = 1
    /\ calls = 1

LinkStep == tool' \in {"link_ok", "link_empty", "link_crashed"} /\ toolVars' # toolVars

SearchStep == tool' \in {"search_ok", "search_empty", "search_fatal", "search_crashed"}
              /\ toolVars' # toolVars

\* C25: no step of embed.py, link.py or search.py changes a note file; a
\* step of link.py or search.py leaves the cache file as it is; link.py
\* writes links.json only, and what it writes is the result of this
\* invocation alone; search.py writes search_results.json only.
C25_OutputsOnly ==
    [][/\ fs' = fs
       /\ LinkStep =>
             /\ disk' = disk
             /\ search_json' = search_json
             /\ tool' = "link_ok" =>
                   /\ links_json'.links =
                          find_links(load_cache(disk), threshold', DefaultMaxThreshold)
                   /\ links_json'.total_links = Len(links_json'.links)
                   /\ links_json'.threshold = threshold'
       /\ SearchStep =>
             /\ disk' = disk
             /\ links_json' = links_json]_vars

\* link.py has written a result with a link at the lower threshold, next to
\* note files and a cache file that are as they were
C25_Witness ==
    /\ tool = "link_ok"
    /\ links_json.threshold = Rat(3, 5)
    /\ links_json.total_links >= 1
    /\ search_json = NoOutput
    /\ disk.state = "valid"
    /\ DOMAIN fs # {}

====
